---- MODULE Spec2Model ----
(***************************************************************************)
(* Model of the Okta "unsuspend user" action (src/src/script.mjs).         *)
(*                                                                         *)
(* One invocation of invoke is a sequence of steps, one per stretch of the *)
(* function between two awaits (script.mjs:100, 109, 117, 131, 140):       *)
(*   Invoke           resolve the address, ask for the headers             *)
(*   HeadersSettled   the headers settle: rewrite the token, issue the     *)
(*                    POST                                                 *)
(*   UnsuspendSettled the POST settles: ask for the body of a rejected     *)
(*                    transition, or issue the GET                         *)
(*   ErrorBodySettled the body of the rejected transition settles: throw   *)
(*   GetUserSettled   the GET settles: throw if it is not ok, or ask for   *)
(*                    its body                                             *)
(*   UserDataSettled  the body of the read-back settles: reconcile, build  *)
(*                    the result                                           *)
(* The two other handlers of the script are one step each:                 *)
(*   ErrorHandler     error(params): log and re-throw                      *)
(*   Halt             halt(params): log and acknowledge                    *)
(*                                                                         *)
(* Strings are sequences of one-character strings wherever the code looks  *)
(* inside them (userId, tokens, URLs, messages); opaque pieces of text     *)
(* (a host name, a fixed message fragment) are single elements.            *)
(***************************************************************************)
EXTENDS Naturals, Sequences, FiniteSets

VARIABLES
    pc,                     \* position of invoke: idle, awaitHeaders, awaitUnsuspend, awaitErrorBody,
                            \* awaitGetUser, awaitUserData, returned, thrown
    params,                 \* the params argument of invoke
    context,                \* the context argument of invoke
    baseUrl,                \* const baseUrl (script.mjs:97)
    headers,                \* let headers (script.mjs:100), rewritten in place at :105
    fetchCalls,             \* the calls made to fetch, in order
    unsuspendUserResponse,  \* const unsuspendUserResponse (script.mjs:109), <<>> until set
    getUserResponse,        \* const getUserResponse (script.mjs:131), <<>> until set
    result,                 \* the value invoke returned, <<>> if none
    error,                  \* the error invoke threw, <<>> if none
    jsonCalls,              \* the responses whose json() has been called, in order
    recovery,               \* the outcome of the error handler, <<>> until it has run
    halted,                 \* the call of the halt handler and its outcome, <<>> until it has run
    authHeaders,            \* the object createAuthHeaders returned, as it is now; <<>> if none
    runs                    \* invocations running side by side: the locals of each

vars == <<pc, params, context, baseUrl, headers, fetchCalls,
          unsuspendUserResponse, getUserResponse, result, error,
          jsonCalls, recovery, halted, authHeaders, runs>>

----------------------------------------------------------------------------
(* Bounds and JavaScript values *)

\* Longest userId string drawn as an input.
MaxLen == 2

\* The characters userId strings are built from: one unreserved letter, the
\* dot, and the reserved characters the encoding has to neutralise.
Alphabet == {"a", ".", "/", "@", " "}

\* JavaScript undefined, for string-valued fields.
undefined == "undefined"

\* The JSON value null, for string-valued fields of a body.
null == "null"

\* The empty string, as a sequence of characters.
EmptyString == << >>

RECURSIVE Concat(_)
\* Concatenation of a sequence of strings.
Concat(ss) == IF ss = << >> THEN << >> ELSE Head(ss) \o Concat(Tail(ss))

\* String.prototype.startsWith
startsWith(s, prefix) ==
    /\ Len(s) >= Len(prefix)
    /\ SubSeq(s, 1, Len(prefix)) = prefix

\* String.prototype.substring(n): drops the first n characters
substring(s, n) == SubSeq(s, n + 1, Len(s))

\* JavaScript truthiness of a string-or-undefined field held as a sequence
\* (the empty string is falsy; an absent field is held as the empty string).
Truthy(s) == s # EmptyString

\* The strings over Alphabet of length at most n.
StringsUpTo(n) == UNION {[1..k -> Alphabet] : k \in 0..n}

\* Decimal text of the numbers the model prints into strings.
NumberToString(n) ==
    CASE n = 7   -> <<"7">>
      [] n = 200 -> <<"2", "0", "0">>
      [] n = 204 -> <<"2", "0", "4">>
      [] n = 400 -> <<"4", "0", "0">>
      [] n = 404 -> <<"4", "0", "4">>
      [] n = 500 -> <<"5", "0", "0">>
      [] n = 503 -> <<"5", "0", "3">>

\* A userId as passed in params: absent, a number, or a string.
UserIdValues ==
    {[type |-> "undefined", str |-> EmptyString, num |-> 0]}
    \cup {[type |-> "number", str |-> EmptyString, num |-> 7]}
    \cup {[type |-> "string", str |-> s, num |-> 0] : s \in StringsUpTo(MaxLen)}

\* JavaScript ToString of a userId value, as template literals and
\* encodeURIComponent apply it.
ToString(v) ==
    CASE v.type = "undefined" -> <<"u", "n", "d", "e", "f", "i", "n", "e", "d">>
      [] v.type = "number"    -> NumberToString(v.num)
      [] v.type = "string"    -> v.str

----------------------------------------------------------------------------
(* Request building: encodeURIComponent and the two URLs *)

\* The characters of Alphabet that encodeURIComponent leaves as they are
\* (letters, digits and - _ . ! ~ * ' ( ) are unreserved).
UnreservedChars == {"a", "."}

\* The UTF-8 percent escape of a reserved character.
PercentEscape(c) ==
    CASE c = "/" -> <<"%", "2", "F">>
      [] c = "@" -> <<"%", "4", "0">>
      [] c = " " -> <<"%", "2", "0">>

\* Digits and letters (of ToString of a non-string userId) are unreserved too.
EncodeChar(c) == IF c \in Alphabet \ UnreservedChars THEN PercentEscape(c) ELSE <<c>>

\* encodeURIComponent(userId): ToString, then every character escaped or kept.
encodeURIComponent(v) ==
    LET str == ToString(v)
    IN  Concat([i \in 1..Len(str) |-> EncodeChar(str[i])])

\* The fixed pieces of the request paths; "/" is always an element of its own.
UsersPath == <<"/", "api", "/", "v1", "/", "users", "/">>
UnsuspendSuffix == <<"/", "lifecycle", "/", "unsuspend">>

\* The fetch call of unsuspendUser(userId, baseUrl, headers).
unsuspendUser(uid, base, hdrs) ==
    [method  |-> "POST",
     url     |-> base \o UsersPath \o encodeURIComponent(uid) \o UnsuspendSuffix,
     headers |-> hdrs]

\* The fetch call of getUser(userId, baseUrl, headers).
getUser(uid, base, hdrs) ==
    [method  |-> "GET",
     url     |-> base \o UsersPath \o encodeURIComponent(uid),
     headers |-> hdrs]

----------------------------------------------------------------------------
(* Errors *)

\* createError(message, statusCode): an Error with a statusCode attribute.
createError(message, statusCode) ==
    [name |-> "Error", message |-> message, statusCode |-> <<statusCode>>]

\* An error raised by a collaborator or by the runtime: no statusCode is set.
PlainError(name, message) ==
    [name |-> name, message |-> message, statusCode |-> << >>]

----------------------------------------------------------------------------
(* The collaborators of @sgnl-actions/utils, as invoke consumes them *)

Bearer == <<"B", "e", "a", "r", "e", "r", " ">>
SSWS == <<"S", "S", "W", "S", " ">>
Basic == <<"B", "a", "s", "i", "c", " ">>

ExampleAddress == <<"https://example.okta.com">>
EnvAddress == <<"https://env.okta.com">>

\* The pairs <<params.address, context.environment.ADDRESS>> drawn: neither
\* given, only the parameter, only the environment, and both (the parameter
\* with a trailing slash).
AddressValues ==
    {<<EmptyString, EmptyString>>,
     <<ExampleAddress, EmptyString>>,
     <<EmptyString, EnvAddress>>,
     <<ExampleAddress \o <<"/">>, EnvAddress>>}

NoSecrets ==
    [BEARER_AUTH_TOKEN |-> EmptyString,
     BASIC_USERNAME |-> EmptyString,
     BASIC_PASSWORD |-> EmptyString,
     OAUTH2_AUTHORIZATION_CODE_ACCESS_TOKEN |-> EmptyString,
     OAUTH2_CLIENT_CREDENTIALS_CLIENT_SECRET |-> EmptyString]

\* The bearer credentials drawn: bare, SSWS-prefixed, Bearer-prefixed, both.
BearerTokens ==
    {<<"t", "k">>, SSWS \o <<"t", "k">>, Bearer \o <<"t", "k">>,
     Bearer \o SSWS \o <<"t", "k">>}

\* context.secrets: nothing configured, or one of the four schemes.
SecretsValues ==
    {NoSecrets}
    \cup {[NoSecrets EXCEPT !.BEARER_AUTH_TOKEN = t] : t \in BearerTokens}
    \cup {[NoSecrets EXCEPT !.BASIC_USERNAME = <<"u">>, !.BASIC_PASSWORD = <<"p">>]}
    \cup {[NoSecrets EXCEPT !.OAUTH2_AUTHORIZATION_CODE_ACCESS_TOKEN = <<"a", "c">>]}
    \cup {[NoSecrets EXCEPT !.OAUTH2_CLIENT_CREDENTIALS_CLIENT_SECRET = <<"s">>]}

\* The authentication scheme the resolver selects for a context.
AuthScheme(ctx) ==
    CASE Truthy(ctx.secrets.BEARER_AUTH_TOKEN) -> "bearer"
      [] OTHER ->
         IF Truthy(ctx.secrets.BASIC_USERNAME) /\ Truthy(ctx.secrets.BASIC_PASSWORD)
         THEN "basic"
         ELSE IF Truthy(ctx.secrets.OAUTH2_AUTHORIZATION_CODE_ACCESS_TOKEN)
         THEN "oauth2_authorization_code"
         ELSE IF Truthy(ctx.secrets.OAUTH2_CLIENT_CREDENTIALS_CLIENT_SECRET)
         THEN "oauth2_client_credentials"
         ELSE "none"

\* A token with the generic Bearer prefix, added unless already there.
WithBearer(token) == IF startsWith(token, Bearer) THEN token ELSE Bearer \o token

\* The Authorization value the resolver produces for a context.
getAuthorizationHeader(ctx) ==
    CASE AuthScheme(ctx) = "bearer" -> WithBearer(ctx.secrets.BEARER_AUTH_TOKEN)
      [] AuthScheme(ctx) = "basic" -> Basic \o <<"base64(u:p)">>
      [] AuthScheme(ctx) = "oauth2_authorization_code" ->
            WithBearer(ctx.secrets.OAUTH2_AUTHORIZATION_CODE_ACCESS_TOKEN)
      [] AuthScheme(ctx) = "oauth2_client_credentials" -> Bearer \o <<"c", "c">>

\* createAuthHeaders(context): the header set, or the resolver's error.
createAuthHeaders(ctx) ==
    IF AuthScheme(ctx) = "none"
    THEN [ok |-> FALSE,
          error |-> PlainError("Error", <<"No authentication configured">>),
          headers |-> << >>]
    ELSE [ok |-> TRUE,
          error |-> << >>,
          headers |-> [Authorization |-> getAuthorizationHeader(ctx),
                       Accept |-> "application/json",
                       ContentType |-> "application/json",
                       UserAgent |-> "SGNL_USER_AGENT"]]

\* getBaseURL(params, context): params.address, else the environment's
\* ADDRESS, without a trailing slash; an error if neither is given.
getBaseURL(p, ctx) ==
    LET address == IF Truthy(p.address) THEN p.address ELSE ctx.environment.ADDRESS
    IN  IF ~Truthy(address)
        THEN [ok |-> FALSE,
              error |-> PlainError("Error",
                  <<"No URL specified. Provide address parameter or ADDRESS environment variable">>),
              url |-> EmptyString]
        ELSE [ok |-> TRUE,
              error |-> << >>,
              url |-> IF address[Len(address)] = "/"
                      THEN SubSeq(address, 1, Len(address) - 1)
                      ELSE address]

----------------------------------------------------------------------------
(* Responses of the remote API *)

\* Okta user status constants (only SUSPENDED is named by the code).
USER_STATUS == [SUSPENDED |-> "SUSPENDED"]

\* A response body: what json() yields ("invalid": json() throws; "null":
\* the JSON value null; "object": an object with these fields, undefined
\* where absent).
Body(json, errorSummary, status, statusChanged, lastUpdated) ==
    [json |-> json, errorSummary |-> errorSummary, status |-> status,
     statusChanged |-> statusChanged, lastUpdated |-> lastUpdated]

InvalidBody == Body("invalid", undefined, undefined, undefined, undefined)
NullBody == Body("null", undefined, undefined, undefined, undefined)
EmptyObject == Body("object", undefined, undefined, undefined, undefined)
ErrorObject(summary) == Body("object", summary, undefined, undefined, undefined)

\* The user objects a read-back may return: every status with each
\* timestamp absent or given, and an ACTIVE user with each timestamp absent,
\* null, empty or given.
UserObjects ==
    {Body("object", undefined, st, sc, lu) :
        st \in {"ACTIVE", "SUSPENDED", "RECOVERY", undefined},
        sc \in {undefined, "2024-01-15T10:30:00.000Z"},
        lu \in {undefined, "2024-01-14T09:00:00.000Z"}}
    \cup {Body("object", undefined, "ACTIVE", sc, lu) :
        sc \in {undefined, null, "", "2024-01-15T10:30:00.000Z"},
        lu \in {undefined, null, "", "2024-01-14T09:00:00.000Z"}}

\* The user object a transition response may carry: it differs from every
\* read-back in its timestamp.
TransitionUser == Body("object", undefined, "SUSPENDED", "2023-12-31T00:00:00.000Z", undefined)

\* The bodies of a rejected request.
ErrorBodies ==
    {InvalidBody, NullBody, EmptyObject, ErrorObject(""), ErrorObject("Not found")}

Response(status, body) == [status |-> status, body |-> body]

\* The responses the POST may settle with.
UnsuspendResponses ==
    {Response(200, b) : b \in {InvalidBody, EmptyObject, TransitionUser}}
    \cup {Response(204, InvalidBody)}
    \cup {Response(400, b) : b \in {InvalidBody, ErrorObject("Api validation failed")}}
    \cup {Response(st, b) : st \in {404, 503}, b \in ErrorBodies}

\* The responses the GET may settle with.
GetUserResponses ==
    {Response(200, b) : b \in {InvalidBody, NullBody} \cup UserObjects}
    \cup {Response(st, b) : st \in {404, 500}, b \in {InvalidBody, ErrorObject("Not found")}}

\* Response.ok: the status is in the range 200-299.
ok(response) == response.status \in 200..299

\* JavaScript truthiness of a body field.
TruthyField(v) == v \notin {undefined, null, ""}

----------------------------------------------------------------------------
(* invoke, piece by piece *)

\* Faulty variant of sswsHeaders: every Bearer header is rewritten, whatever
\* the auth mode.
sswsHeaders_AnyMode(ctx, hdrs) ==
    IF startsWith(hdrs.Authorization, Bearer)
    THEN LET token == substring(hdrs.Authorization, 7)
         IN  [hdrs EXCEPT !.Authorization =
                  IF startsWith(token, SSWS) THEN token ELSE SSWS \o token]
    ELSE hdrs

\* Okta's SSWS token format, only for Bearer token auth mode: the header set
\* after the rewrite of script.mjs:103-106.
sswsHeaders(ctx, hdrs) ==
    IF Truthy(ctx.secrets.BEARER_AUTH_TOKEN) /\ startsWith(hdrs.Authorization, Bearer)
    THEN LET token == substring(hdrs.Authorization, 7)
         IN  [hdrs EXCEPT !.Authorization =
                  IF startsWith(token, SSWS) THEN token ELSE SSWS \o token]
    ELSE hdrs

\* Faulty variant of transitionRejected: only 200 counts as success.
transitionRejected_Only200(response) == response.status # 200 /\ response.status # 400

\* Faulty variant of transitionRejected: no transition response is fatal.
transitionRejected_Never(response) == FALSE

\* Faulty variant of transitionRejected: an ok response has to carry a body
\* that parses.
transitionRejected_BodyRequired(response) ==
    \/ ~ok(response) /\ response.status # 400
    \/ ok(response) /\ response.body.json = "invalid"

\* Faulty variant of transitionRejected: a 400 whose body names a failure is
\* taken at its word.
transitionRejected_400BodyInspected(response) ==
    \/ ~ok(response) /\ response.status # 400
    \/ /\ response.status = 400
       /\ response.body.json = "object"
       /\ TruthyField(response.body.errorSummary)

\* The transition response makes invoke fail at once: not ok and not 400.
transitionRejected(response) == ~ok(response) /\ response.status # 400

\* Faulty variant of transitionErrorMessage: the errorSummary of any parsed
\* object is used, present or not.
transitionErrorMessage_AnySummary(response) ==
    IF response.body.json = "object"
    THEN <<"Failed to unsuspend user: ", response.body.errorSummary>>
    ELSE <<"Failed to unsuspend user: ", "HTTP ">> \o NumberToString(response.status)

\* The message of the transition error: the body's errorSummary if json()
\* yields an object with a truthy one, else the generic HTTP message (json()
\* throwing, or the property read on null throwing, is caught).
transitionErrorMessage(response) ==
    IF response.body.json = "object" /\ TruthyField(response.body.errorSummary)
    THEN <<"Failed to unsuspend user: ", response.body.errorSummary>>
    ELSE <<"Failed to unsuspend user: ", "HTTP ">> \o NumberToString(response.status)

\* The error thrown for a rejected transition.
transitionError(response) ==
    createError(transitionErrorMessage(response), response.status)

\* Faulty variant of unsuspendedAt: the two fields in the wrong priority.
unsuspendedAt_LastUpdatedFirst(userData) ==
    IF TruthyField(userData.lastUpdated) THEN userData.lastUpdated
    ELSE userData.statusChanged

\* Faulty variant of unsuspendedAt: the time of the call, read from the
\* local clock.
unsuspendedAt_Now(userData) == "2024-01-15T10:31:00.000Z"

\* unsuspendedAt of the result: userData.statusChanged || userData.lastUpdated
unsuspendedAt(userData) ==
    IF TruthyField(userData.statusChanged) THEN userData.statusChanged
    ELSE userData.lastUpdated

\* Faulty variant of stillSuspended: the reconciliation check dropped.
stillSuspended_Never(userData) == FALSE

\* The user is still suspended: userData.status === USER_STATUS.SUSPENDED
stillSuspended(userData) == userData.status = USER_STATUS.SUSPENDED

\* Faulty variant of successResult: ACTIVE whatever the read-back says.
successResult_HardCodedActive(uid, base, userData) ==
    [userId |-> uid,
     unsuspended |-> TRUE,
     address |-> base,
     unsuspendedAt |-> unsuspendedAt(userData),
     status |-> "ACTIVE"]

\* The object invoke returns.
successResult(uid, base, userData) ==
    [userId |-> uid,
     unsuspended |-> TRUE,
     address |-> base,
     unsuspendedAt |-> unsuspendedAt(userData),
     status |-> userData.status]

\* Faulty variant of fetchUserError: the read-back failure reported with the
\* message of a rejected transition.
fetchUserError_AsTransition(response) ==
    createError(<<"Failed to unsuspend user: ", "HTTP ">>
                    \o NumberToString(response.status),
                response.status)

\* The error thrown when the read-back is not ok (script.mjs:132-136).
fetchUserError(response) ==
    createError(<<"Cannot fetch information about User: ", "HTTP ">>
                    \o NumberToString(response.status),
                response.status)

\* Faulty variant of parseUserError: the status code of the response whose
\* body could not be parsed.
parseUserError_Status200 ==
    createError(<<"Cannot parse user data: ", "Unexpected end of JSON input">>, 200)

\* The error thrown when json() of the read-back throws (script.mjs:141-145);
\* err.message is the parser's text.
parseUserError ==
    createError(<<"Cannot parse user data: ", "Unexpected end of JSON input">>, 500)

\* Faulty variant of reconciliationError: the message without the user, and
\* the internal-error status code.
reconciliationError_Anonymous(uid, userData) ==
    createError(<<"User could not be unsuspended. User is currently ", userData.status>>,
                500)

\* The error thrown when the user is still suspended (script.mjs:148-152).
reconciliationError(uid, userData) ==
    createError(<<"User ">> \o ToString(uid)
                    \o <<" could not be unsuspended. User is currently ", userData.status>>,
                400)

\* The TypeError of reading userData.status when json() yielded null.
NullUserData ==
    PlainError("TypeError", <<"Cannot read properties of null (reading 'status')">>)

\* What invoke does with the settled read-back (script.mjs:132-162): the
\* error it throws, or the result it returns.
verifyUser(uid, base, response) ==
    IF ~ok(response)
    THEN [error |-> <<fetchUserError(response)>>, result |-> << >>]
    ELSE IF response.body.json = "invalid"
    THEN [error |-> <<parseUserError>>, result |-> << >>]
    ELSE IF response.body.json = "null"
    THEN [error |-> <<NullUserData>>, result |-> << >>]
    ELSE IF stillSuspended(response.body)
    THEN [error |-> <<reconciliationError(uid, response.body)>>, result |-> << >>]
    ELSE [error |-> << >>, result |-> <<successResult(uid, base, response.body)>>]

\* The outcome of invoke once the POST has been sent (script.mjs:112-162),
\* as a function of the two settled responses: a rejected transition throws
\* without a read-back; otherwise the read-back decides.
invokeOutcome(uid, base, transition, readBack) ==
    IF transitionRejected(transition)
    THEN [error |-> <<transitionError(transition)>>, result |-> << >>]
    ELSE verifyUser(uid, base, readBack)

\* The error a rejected fetch promise carries (a network failure).
FetchFailed == PlainError("TypeError", <<"fetch failed">>)

----------------------------------------------------------------------------
(* The error handler and the halt handler *)

\* Faulty variant of errorOutcome: the error is wrapped in a new Error that
\* keeps the message only.
errorOutcome_Wrapped(p) ==
    [thrown |-> <<PlainError("Error", p.error.message)>>, returned |-> << >>]

\* The outcome of error(params) (script.mjs:172-179): it logs and throws
\* params.error itself; it has no return statement.
errorOutcome(p) == [thrown |-> <<p.error>>, returned |-> << >>]

\* The reasons a halt is given in the tests.
HaltReasons == {"timeout", "cancelled"}

\* The readings of the clock at a halt, as new Date().toISOString() prints
\* them; they differ from every timestamp of a response.
ClockValues == {"2024-01-15T10:31:00.000Z", "2024-01-15T10:32:00.000Z"}

\* The halts that arrive: a timeout at the first reading of the clock, a
\* cancellation at the second.
HaltCalls ==
    {call \in [reason : HaltReasons, now : ClockValues] :
        (call.reason = "timeout") = (call.now = "2024-01-15T10:31:00.000Z")}

\* JavaScript truthiness of a userId value.
TruthyValue(v) ==
    \/ v.type = "string" /\ v.str # EmptyString
    \/ v.type = "number" /\ v.num # 0

\* The string 'unknown', as a userId value.
Unknown == [type |-> "string", str |-> <<"u", "n", "k", "n", "o", "w", "n">>, num |-> 0]

\* Faulty variant of halt: the userId is passed through as given.
halt_UserIdAsGiven(p, now) ==
    [userId |-> p.userId,
     reason |-> p.reason,
     haltedAt |-> now,
     cleanupCompleted |-> TRUE]

\* The object halt(params) returns (script.mjs:194-199), now being the
\* reading of the clock: userId || 'unknown', the reason as given.
halt(p, now) ==
    [userId |-> IF TruthyValue(p.userId) THEN p.userId ELSE Unknown,
     reason |-> p.reason,
     haltedAt |-> now,
     cleanupCompleted |-> TRUE]

\* The outcome of halt(params): it logs and returns; nothing in it throws.
haltOutcome(p, now) == [thrown |-> << >>, returned |-> <<halt(p, now)>>]

----------------------------------------------------------------------------
(* The bundle dist/index.js *)

\* The values of params.oktaDomain: a host name, or nothing.
ExampleDomain == <<"example.okta.com">>
EnvDomain == <<"env.okta.com">>

\* `https://${oktaDomain}` (dist/index.js:18)
distOrigin(oktaDomain) ==
    IF oktaDomain = ExampleDomain THEN ExampleAddress
    ELSE IF oktaDomain = EnvDomain THEN EnvAddress
    ELSE <<"https://">> \o oktaDomain

\* new URL(path, origin).toString() (dist/index.js:18): the parser drops a
\* "." segment, and a ".." segment together with the segment before it.
distUrl(userId, oktaDomain) ==
    LET encoded == encodeURIComponent(userId)
    IN  distOrigin(oktaDomain)
            \o (IF encoded = <<".">> THEN <<"/", "api", "/", "v1", "/", "users">>
                ELSE IF encoded = <<".", ".">> THEN <<"/", "api", "/", "v1">>
                ELSE UsersPath \o encoded)
            \o UnsuspendSuffix

\* The request unsuspendUser of the bundle sends (dist/index.js:15-32).
distUnsuspendUser(userId, oktaDomain, authToken) ==
    [method  |-> "POST",
     url     |-> distUrl(userId, oktaDomain),
     headers |-> [Authorization |-> IF startsWith(authToken, SSWS)
                                    THEN authToken ELSE SSWS \o authToken,
                  Accept |-> "application/json",
                  ContentType |-> "application/json",
                  UserAgent |-> undefined]]

\* The error the bundle's invoke throws before any call, <<>> if its inputs
\* pass (dist/index.js:49-60).
distValidationError(p, ctx) ==
    IF ~(p.userId.type = "string" /\ p.userId.str # EmptyString)
    THEN <<PlainError("Error", <<"Invalid or missing userId parameter">>)>>
    ELSE IF ~Truthy(p.oktaDomain)
    THEN <<PlainError("Error", <<"Invalid or missing oktaDomain parameter">>)>>
    ELSE IF ~Truthy(ctx.secrets.OKTA_API_TOKEN)
    THEN <<PlainError("Error", <<"Missing required secret: OKTA_API_TOKEN">>)>>
    ELSE << >>

\* The calls the bundle's invoke makes (dist/index.js:63-67): the POST if
\* its inputs pass, and no other.
distCalls(p, ctx) ==
    IF distValidationError(p, ctx) # << >> THEN << >>
    ELSE <<distUnsuspendUser(p.userId, p.oktaDomain, ctx.secrets.OKTA_API_TOKEN)>>

\* How the bundle's invoke ends once its POST has settled with a response,
\* now being the reading of the clock (dist/index.js:70-109): an ok response
\* is a success, with the status of its body or ACTIVE; every other one,
\* 400 included, is thrown with its status.
distOutcome(p, ctx, response, now) ==
    IF distValidationError(p, ctx) # << >>
    THEN [error |-> distValidationError(p, ctx), result |-> << >>]
    ELSE IF ok(response)
    THEN IF response.body.json = "null"
         THEN [error |-> <<NullUserData>>, result |-> << >>]
         ELSE [error |-> << >>,
               result |-> <<[userId |-> p.userId,
                             unsuspended |-> TRUE,
                             oktaDomain |-> p.oktaDomain,
                             unsuspendedAt |-> now,
                             status |-> IF response.body.json = "object"
                                           /\ TruthyField(response.body.status)
                                        THEN response.body.status
                                        ELSE "ACTIVE"]>>]
    ELSE [error |-> <<[name |-> "Error",
                       message |->
                           IF response.body.json = "object"
                              /\ TruthyField(response.body.errorSummary)
                           THEN <<"Failed to unsuspend user: ", response.body.errorSummary>>
                           ELSE <<"Failed to unsuspend user: ", "HTTP ">>
                                    \o NumberToString(response.status),
                       statusCode |-> <<response.status>>]>>,
          result |-> << >>]

----------------------------------------------------------------------------
(* Invocations side by side *)

\* How many invocations run side by side.
MaxRuns == 2

Runs == 1..MaxRuns

\* The locals of an invocation that has not been called yet.
IdleRun ==
    [pc |-> "idle",
     params |-> [userId |-> [type |-> "undefined", str |-> EmptyString, num |-> 0],
                 address |-> EmptyString],
     context |-> [secrets |-> NoSecrets, environment |-> [ADDRESS |-> EmptyString]],
     baseUrl |-> EmptyString,
     headers |-> << >>,
     fetchCalls |-> << >>,
     unsuspendUserResponse |-> << >>,
     getUserResponse |-> << >>,
     result |-> << >>,
     error |-> << >>]

\* The users of invocations side by side, their secrets, and the responses
\* their calls settle with.
RunUserIds == {[type |-> "string", str |-> <<c>>, num |-> 0] : c \in {"a", "@"}}
RunSecrets == {NoSecrets, [NoSecrets EXCEPT !.BEARER_AUTH_TOKEN = <<"t", "k">>]}
RunUnsuspendResponses ==
    {Response(200, InvalidBody), Response(400, InvalidBody), Response(404, InvalidBody)}
RunGetUserResponses ==
    {Response(200, Body("object", undefined, st, "2024-01-15T10:30:00.000Z", undefined)) :
        st \in {"ACTIVE", "SUSPENDED"}}
    \cup {Response(500, InvalidBody)}

\* The locals of an invocation after invoke(p, ctx) has run up to its first
\* await (script.mjs:90-100): the base URL is resolved, the headers are
\* asked for, nothing is sent.
runInvoked(p, ctx) ==
    LET base == getBaseURL(p, ctx)
        run  == [IdleRun EXCEPT !.params = p, !.context = ctx]
    IN  IF ~base.ok
        THEN [run EXCEPT !.pc = "thrown", !.error = <<base.error>>]
        ELSE [run EXCEPT !.pc = "awaitHeaders", !.baseUrl = base.url]

\* The locals of an invocation after its headers have settled
\* (script.mjs:100-109): the token is rewritten and the POST is sent.
runHeadersSettled(run) ==
    LET auth == createAuthHeaders(run.context)
        hdrs == sswsHeaders(run.context, auth.headers)
    IN  IF ~auth.ok
        THEN [run EXCEPT !.pc = "thrown", !.error = <<auth.error>>]
        ELSE [run EXCEPT !.pc = "awaitUnsuspend",
                         !.headers = <<hdrs>>,
                         !.fetchCalls = <<unsuspendUser(run.params.userId, run.baseUrl, hdrs)>>]

\* The locals of an invocation after its POST has settled with a response
\* (script.mjs:109-117, 109-131), the GET being for user uid: a rejected
\* transition has its body asked for, otherwise the GET is sent.
runUnsuspendSettled(run, response, uid) ==
    IF transitionRejected(response)
    THEN [run EXCEPT !.pc = "awaitErrorBody",
                     !.unsuspendUserResponse = <<response>>]
    ELSE [run EXCEPT !.pc = "awaitGetUser",
                     !.unsuspendUserResponse = <<response>>,
                     !.fetchCalls = Append(@, getUser(uid, run.baseUrl, run.headers[1]))]

\* The locals of an invocation after the body of its rejected transition
\* has settled (script.mjs:117-128).
runErrorBodySettled(run) ==
    [run EXCEPT !.pc = "thrown",
                !.error = <<transitionError(run.unsuspendUserResponse[1])>>]

\* The locals of an invocation after its GET has settled with a response
\* (script.mjs:131-140): a read-back that is not ok throws, an ok one has
\* its body asked for.
runGetUserSettled(run, response) ==
    IF ~ok(response)
    THEN [run EXCEPT !.pc = "thrown",
                     !.getUserResponse = <<response>>,
                     !.error = <<fetchUserError(response)>>]
    ELSE [run EXCEPT !.pc = "awaitUserData",
                     !.getUserResponse = <<response>>]

\* The locals of an invocation after the body of its read-back has settled
\* (script.mjs:140-162).
runUserDataSettled(run) ==
    LET outcome == verifyUser(run.params.userId, run.baseUrl, run.getUserResponse[1])
    IN  [run EXCEPT !.pc = IF outcome.error # << >> THEN "thrown" ELSE "returned",
                    !.error = outcome.error,
                    !.result = outcome.result]

\* The locals of an invocation after the fetch it awaits has been rejected.
runFetchFailed(run) == [run EXCEPT !.pc = "thrown", !.error = <<FetchFailed>>]

----------------------------------------------------------------------------
(* The state machine *)

Init ==
    /\ pc = "idle"
    /\ params = [userId |-> [type |-> "undefined", str |-> EmptyString, num |-> 0],
                 address |-> EmptyString]
    /\ context = [secrets |-> NoSecrets, environment |-> [ADDRESS |-> EmptyString]]
    /\ baseUrl = EmptyString
    /\ headers = << >>
    /\ fetchCalls = << >>
    /\ unsuspendUserResponse = << >>
    /\ getUserResponse = << >>
    /\ result = << >>
    /\ error = << >>
    /\ jsonCalls = << >>
    /\ recovery = << >>
    /\ halted = << >>
    /\ authHeaders = << >>
    /\ runs = [i \in Runs |-> IdleRun]

\* The header set of a request sent without credentials.
AnonymousHeaders ==
    [Authorization |-> EmptyString,
     Accept |-> "application/json",
     ContentType |-> "application/json",
     UserAgent |-> "SGNL_USER_AGENT"]

\* invoke(params, context) up to its first await (script.mjs:90-100): the
\* base URL is resolved, which throws at once if there is none, and the
\* headers are asked for. Nothing is sent yet.
Invoke ==
    /\ pc = "idle"
    /\ \E uid \in UserIdValues, addr \in AddressValues, secrets \in SecretsValues :
          LET p    == [userId |-> uid, address |-> addr[1]]
              ctx  == [secrets |-> secrets, environment |-> [ADDRESS |-> addr[2]]]
              base == getBaseURL(p, ctx)
          IN  /\ params' = p
              /\ context' = ctx
              /\ IF ~base.ok
                 THEN /\ pc' = "thrown"
                      /\ error' = <<base.error>>
                      /\ UNCHANGED baseUrl
                 ELSE /\ pc' = "awaitHeaders"
                      /\ baseUrl' = base.url
                      /\ UNCHANGED error
    /\ UNCHANGED <<headers, fetchCalls, authHeaders>>
    /\ UNCHANGED <<unsuspendUserResponse, getUserResponse, result>>
    /\ UNCHANGED <<jsonCalls, recovery, halted, runs>>

\* Faulty variant of HeadersSettled: the POST and the GET are sent together.
HeadersSettled_BothAtOnce ==
    /\ pc = "awaitHeaders"
    /\ LET auth == createAuthHeaders(context)
           hdrs == sswsHeaders(context, auth.headers)
       IN  IF ~auth.ok
           THEN /\ pc' = "thrown"
                /\ error' = <<auth.error>>
                /\ UNCHANGED <<headers, fetchCalls, authHeaders>>
           ELSE /\ pc' = "awaitUnsuspend"
                /\ headers' = <<hdrs>>
                /\ authHeaders' = <<hdrs>>
                /\ fetchCalls' = <<unsuspendUser(params.userId, baseUrl, hdrs),
                                   getUser(params.userId, baseUrl, hdrs)>>
                /\ UNCHANGED error
    /\ UNCHANGED <<params, context, baseUrl>>
    /\ UNCHANGED <<unsuspendUserResponse, getUserResponse, result>>
    /\ UNCHANGED <<jsonCalls, recovery, halted, runs>>

\* Faulty variant of HeadersSettled: the error of the header resolver is
\* caught, and the POST is sent without credentials if none are configured.
HeadersSettled_ResolverErrorCaught ==
    /\ pc = "awaitHeaders"
    /\ LET auth == createAuthHeaders(context)
           hdrs == IF auth.ok THEN sswsHeaders(context, auth.headers) ELSE AnonymousHeaders
       IN  /\ pc' = "awaitUnsuspend"
           /\ headers' = <<hdrs>>
           /\ authHeaders' = IF auth.ok THEN <<hdrs>> ELSE << >>
           /\ fetchCalls' = <<unsuspendUser(params.userId, baseUrl, hdrs)>>
           /\ UNCHANGED error
    /\ UNCHANGED <<params, context, baseUrl>>
    /\ UNCHANGED <<unsuspendUserResponse, getUserResponse, result>>
    /\ UNCHANGED <<jsonCalls, recovery, halted, runs>>

\* The headers settle (script.mjs:100-109): a rejection of the resolver
\* propagates; otherwise the token is rewritten and the POST is sent. The
\* rewrite of line 105 assigns to a property of the object
\* createAuthHeaders returned, which headers refers to: after it that
\* object holds the rewritten value.
HeadersSettled ==
    /\ pc = "awaitHeaders"
    /\ LET auth == createAuthHeaders(context)
           hdrs == sswsHeaders(context, auth.headers)
       IN  IF ~auth.ok
           THEN /\ pc' = "thrown"
                /\ error' = <<auth.error>>
                /\ UNCHANGED <<headers, fetchCalls, authHeaders>>
           ELSE /\ pc' = "awaitUnsuspend"
                /\ headers' = <<hdrs>>
                /\ authHeaders' = <<hdrs>>
                /\ fetchCalls' = <<unsuspendUser(params.userId, baseUrl, hdrs)>>
                /\ UNCHANGED error
    /\ UNCHANGED <<params, context, baseUrl>>
    /\ UNCHANGED <<unsuspendUserResponse, getUserResponse, result>>
    /\ UNCHANGED <<jsonCalls, recovery, halted, runs>>

\* Faulty variant of UnsuspendSettled: a 503 is retried, the POST sent again.
UnsuspendSettled_Retry ==
    /\ pc = "awaitUnsuspend"
    /\ \/ /\ pc' = "thrown"
          /\ error' = <<FetchFailed>>
          /\ UNCHANGED <<unsuspendUserResponse, fetchCalls, jsonCalls>>
       \/ \E response \in UnsuspendResponses :
             /\ unsuspendUserResponse' = <<response>>
             /\ IF response.status = 503
                THEN /\ pc' = "awaitUnsuspend"
                     /\ fetchCalls' = Append(fetchCalls,
                            unsuspendUser(params.userId, baseUrl, headers[1]))
                     /\ UNCHANGED <<error, jsonCalls>>
                ELSE IF transitionRejected(response)
                THEN /\ pc' = "awaitErrorBody"
                     /\ jsonCalls' = Append(jsonCalls, "unsuspendUserResponse")
                     /\ UNCHANGED <<error, fetchCalls>>
                ELSE /\ pc' = "awaitGetUser"
                     /\ fetchCalls' = Append(fetchCalls,
                            getUser(params.userId, baseUrl, headers[1]))
                     /\ UNCHANGED <<error, jsonCalls>>
    /\ UNCHANGED <<params, context, baseUrl, headers, getUserResponse, result>>
    /\ UNCHANGED <<recovery, halted, authHeaders, runs>>

\* The POST settles (script.mjs:109-117, 109-131): a rejected fetch
\* propagates; a rejected transition has json() called on its response, and
\* invoke waits for the body; otherwise the GET is sent, the body of the
\* transition response unread.
UnsuspendSettled ==
    /\ pc = "awaitUnsuspend"
    /\ \/ /\ pc' = "thrown"
          /\ error' = <<FetchFailed>>
          /\ UNCHANGED <<unsuspendUserResponse, fetchCalls, jsonCalls>>
       \/ \E response \in UnsuspendResponses :
             /\ unsuspendUserResponse' = <<response>>
             /\ IF transitionRejected(response)
                THEN /\ pc' = "awaitErrorBody"
                     /\ jsonCalls' = Append(jsonCalls, "unsuspendUserResponse")
                     /\ UNCHANGED <<error, fetchCalls>>
                ELSE /\ pc' = "awaitGetUser"
                     /\ fetchCalls' = Append(fetchCalls,
                            getUser(params.userId, baseUrl, headers[1]))
                     /\ UNCHANGED <<error, jsonCalls>>
    /\ UNCHANGED <<params, context, baseUrl, headers, getUserResponse, result>>
    /\ UNCHANGED <<recovery, halted, authHeaders, runs>>

\* The body of a rejected transition settles (script.mjs:117-128): parsed
\* or not, invoke throws the error of the transition.
ErrorBodySettled ==
    /\ pc = "awaitErrorBody"
    /\ pc' = "thrown"
    /\ error' = <<transitionError(unsuspendUserResponse[1])>>
    /\ UNCHANGED <<params, context, baseUrl, headers, fetchCalls,
                   unsuspendUserResponse, getUserResponse, result>>
    /\ UNCHANGED <<jsonCalls, recovery, halted, authHeaders, runs>>

\* Faulty variant of GetUserSettled: a read-back that is not ok is tried
\* once more, the GET sent again.
GetUserSettled_Retry ==
    /\ pc = "awaitGetUser"
    /\ \/ /\ pc' = "thrown"
          /\ error' = <<FetchFailed>>
          /\ UNCHANGED <<getUserResponse, jsonCalls, fetchCalls>>
       \/ \E response \in GetUserResponses :
             /\ getUserResponse' = <<response>>
             /\ IF ~ok(response) /\ Len(fetchCalls) = 2
                THEN /\ fetchCalls' = Append(fetchCalls,
                            getUser(params.userId, baseUrl, headers[1]))
                     /\ UNCHANGED <<pc, error, jsonCalls>>
                ELSE IF ~ok(response)
                THEN /\ pc' = "thrown"
                     /\ error' = <<fetchUserError(response)>>
                     /\ UNCHANGED <<jsonCalls, fetchCalls>>
                ELSE /\ pc' = "awaitUserData"
                     /\ jsonCalls' = Append(jsonCalls, "getUserResponse")
                     /\ UNCHANGED <<error, fetchCalls>>
    /\ UNCHANGED <<params, context, baseUrl, headers, unsuspendUserResponse, result>>
    /\ UNCHANGED <<recovery, halted, authHeaders, runs>>

\* The GET settles (script.mjs:131-140): a rejected fetch propagates; a
\* read-back that is not ok throws; an ok one has json() called on it, and
\* invoke waits for the body.
GetUserSettled ==
    /\ pc = "awaitGetUser"
    /\ \/ /\ pc' = "thrown"
          /\ error' = <<FetchFailed>>
          /\ UNCHANGED <<getUserResponse, jsonCalls>>
       \/ \E response \in GetUserResponses :
             /\ getUserResponse' = <<response>>
             /\ IF ~ok(response)
                THEN /\ pc' = "thrown"
                     /\ error' = <<fetchUserError(response)>>
                     /\ UNCHANGED jsonCalls
                ELSE /\ pc' = "awaitUserData"
                     /\ jsonCalls' = Append(jsonCalls, "getUserResponse")
                     /\ UNCHANGED error
    /\ UNCHANGED <<params, context, baseUrl, headers, fetchCalls,
                   unsuspendUserResponse, result>>
    /\ UNCHANGED <<recovery, halted, authHeaders, runs>>

\* The body of the read-back settles (script.mjs:140-162): a body that does
\* not parse throws; a user still suspended throws; otherwise invoke
\* returns the result.
UserDataSettled ==
    /\ pc = "awaitUserData"
    /\ LET outcome == verifyUser(params.userId, baseUrl, getUserResponse[1])
       IN  /\ error' = outcome.error
           /\ result' = outcome.result
           /\ pc' = IF outcome.error # << >> THEN "thrown" ELSE "returned"
    /\ UNCHANGED <<params, context, baseUrl, headers, fetchCalls,
                   unsuspendUserResponse, getUserResponse>>
    /\ UNCHANGED <<jsonCalls, recovery, halted, authHeaders, runs>>

\* error(params) (script.mjs:172-179), called with the error invoke threw
\* and the userId of that invocation.
ErrorHandler ==
    /\ pc = "thrown"
    /\ recovery = << >>
    /\ recovery' = <<errorOutcome([error |-> error[1], userId |-> params.userId])>>
    /\ UNCHANGED <<pc, params, context, baseUrl, headers, fetchCalls,
                   unsuspendUserResponse, getUserResponse, result, error,
                   jsonCalls, halted, authHeaders, runs>>

\* halt(params) (script.mjs:187-200), called at any stage of an invocation,
\* the stages where invoke waits for its headers or for a body included,
\* with the userId of that invocation and the reason of the halt; the clock
\* is read once.
Halt ==
    /\ halted = << >>
    /\ \E call \in HaltCalls :
          LET p == [userId |-> params.userId, reason |-> call.reason]
          IN  halted' = <<[params |-> p, now |-> call.now,
                           outcome |-> haltOutcome(p, call.now)]>>
    /\ UNCHANGED <<pc, params, context, baseUrl, headers, fetchCalls,
                   unsuspendUserResponse, getUserResponse, result, error,
                   jsonCalls, recovery, authHeaders, runs>>

\* One invocation, a step per stretch of invoke between two awaits, and the
\* error handler the framework calls on its error.
Next ==
    \/ Invoke
    \/ HeadersSettled
    \/ UnsuspendSettled
    \/ ErrorBodySettled
    \/ GetUserSettled
    \/ UserDataSettled
    \/ ErrorHandler

Spec == Init /\ [][Next]_vars

\* The same, every promise invoke awaits settling in the end: the awaits of
\* script.mjs:100, :109, :117, :131 and :140 resume once their promise
\* settles.
FairSpec ==
    /\ Spec
    /\ WF_vars(HeadersSettled)
    /\ WF_vars(UnsuspendSettled)
    /\ WF_vars(ErrorBodySettled)
    /\ WF_vars(GetUserSettled)
    /\ WF_vars(UserDataSettled)

\* The variables of the single invocation and its handlers.
invocationVars ==
    <<pc, params, context, baseUrl, headers, fetchCalls,
      unsuspendUserResponse, getUserResponse, result, error,
      jsonCalls, recovery, halted, authHeaders>>

\* Invocation i is called (script.mjs:90-100); its locals are its own.
RunInvoke(i) ==
    /\ runs[i].pc = "idle"
    /\ \E uid \in RunUserIds, secrets \in RunSecrets :
          runs' = [runs EXCEPT ![i] =
                      runInvoked([userId |-> uid, address |-> ExampleAddress],
                                 [secrets |-> secrets,
                                  environment |-> [ADDRESS |-> EmptyString]])]
    /\ UNCHANGED invocationVars

\* The headers of invocation i settle (script.mjs:100-109).
RunHeadersSettled(i) ==
    /\ runs[i].pc = "awaitHeaders"
    /\ runs' = [runs EXCEPT ![i] = runHeadersSettled(@)]
    /\ UNCHANGED invocationVars

\* Faulty variant of RunUnsuspendSettled: the userId is kept in one place for
\* all invocations, and the GET is for the user of another invocation that
\* has been called.
RunUnsuspendSettled_SharedUserId(i) ==
    /\ runs[i].pc = "awaitUnsuspend"
    /\ \/ runs' = [runs EXCEPT ![i] = runFetchFailed(@)]
       \/ \E response \in RunUnsuspendResponses :
             LET others == {j \in Runs \ {i} : runs[j].pc # "idle"}
                 uid    == IF others = {} THEN runs[i].params.userId
                           ELSE runs[CHOOSE j \in others : TRUE].params.userId
             IN  runs' = [runs EXCEPT ![i] = runUnsuspendSettled(@, response, uid)]
    /\ UNCHANGED invocationVars

\* The POST of invocation i settles (script.mjs:109-117, 109-131).
RunUnsuspendSettled(i) ==
    /\ runs[i].pc = "awaitUnsuspend"
    /\ \/ runs' = [runs EXCEPT ![i] = runFetchFailed(@)]
       \/ \E response \in RunUnsuspendResponses :
             runs' = [runs EXCEPT ![i] =
                         runUnsuspendSettled(@, response, runs[i].params.userId)]
    /\ UNCHANGED invocationVars

\* The body of the rejected transition of invocation i settles
\* (script.mjs:117-128).
RunErrorBodySettled(i) ==
    /\ runs[i].pc = "awaitErrorBody"
    /\ runs' = [runs EXCEPT ![i] = runErrorBodySettled(@)]
    /\ UNCHANGED invocationVars

\* The GET of invocation i settles (script.mjs:131-140).
RunGetUserSettled(i) ==
    /\ runs[i].pc = "awaitGetUser"
    /\ \/ runs' = [runs EXCEPT ![i] = runFetchFailed(@)]
       \/ \E response \in RunGetUserResponses :
             runs' = [runs EXCEPT ![i] = runGetUserSettled(@, response)]
    /\ UNCHANGED invocationVars

\* The body of the read-back of invocation i settles (script.mjs:140-162).
RunUserDataSettled(i) ==
    /\ runs[i].pc = "awaitUserData"
    /\ runs' = [runs EXCEPT ![i] = runUserDataSettled(@)]
    /\ UNCHANGED invocationVars

\* Invocations side by side, their steps interleaved in any order: while
\* one waits at an await, any other may run up to its next await.
ConcurrentNext ==
    \E i \in Runs :
        \/ RunInvoke(i)
        \/ RunHeadersSettled(i)
        \/ RunUnsuspendSettled(i)
        \/ RunErrorBodySettled(i)
        \/ RunGetUserSettled(i)
        \/ RunUserDataSettled(i)

ConcurrentSpec == Init /\ [][ConcurrentNext]_vars

\* The same, with a halt arriving at any stage.
NextWithHalt == Next \/ Halt

SpecWithHalt == Init /\ [][NextWithHalt]_vars

----------------------------------------------------------------------------
(* Vocabulary of the properties *)

\* invoke has ended, by returning or by throwing.
Ended == pc \in {"returned", "thrown"}

\* The POST (the GET) has settled with a response.
UnsuspendAnswered == unsuspendUserResponse # << >>
GetUserAnswered == getUserResponse # << >>

\* A status in the 2xx range.
Is2xx(status) == status >= 200 /\ status <= 299

\* The POST has settled with a response invoke tolerates: 2xx or 400.
TransitionTolerated ==
    /\ UnsuspendAnswered
    /\ Is2xx(unsuspendUserResponse[1].status) \/ unsuspendUserResponse[1].status = 400

\* The number of calls made to fetch with a method.
CallCount(method) ==
    Cardinality({i \in 1..Len(fetchCalls) : fetchCalls[i].method = method})

\* The steps invoke still has before it, at most: it falls with every step.
StepsLeft ==
    CASE pc = "idle" -> 5
      [] pc = "awaitHeaders" -> 4
      [] pc = "awaitUnsuspend" -> 3
      [] pc = "awaitGetUser" -> 2
      [] pc = "awaitErrorBody" -> 1
      [] pc = "awaitUserData" -> 1
      [] OTHER -> 0

\* The methods of the calls made to fetch, in order.
Methods == [i \in 1..Len(fetchCalls) |-> fetchCalls[i].method]

\* What invocation i would have made of its own inputs and responses had it
\* run alone: its calls so far, and how it ended.
AloneCalls(i) ==
    LET run  == runs[i]
        hdrs == sswsHeaders(run.context, createAuthHeaders(run.context).headers)
        post == unsuspendUser(run.params.userId, run.baseUrl, hdrs)
        get  == getUser(run.params.userId, run.baseUrl, hdrs)
    IN  IF run.headers = << >> THEN << >>
        ELSE IF run.unsuspendUserResponse = << >>
                \/ transitionRejected(run.unsuspendUserResponse[1])
        THEN <<post>>
        ELSE <<post, get>>

AloneOutcome(i) ==
    invokeOutcome(runs[i].params.userId, runs[i].baseUrl,
                  runs[i].unsuspendUserResponse[1], runs[i].getUserResponse[1])

\* The inputs of the bundle that say what the inputs of invoke say: the same
\* userId, the host of the address as oktaDomain, the bearer credential as
\* OKTA_API_TOKEN.
DistParams ==
    [userId |-> params.userId,
     oktaDomain |-> IF baseUrl = ExampleAddress THEN ExampleDomain
                    ELSE IF baseUrl = EnvAddress THEN EnvDomain
                    ELSE EmptyString]
DistContext == [secrets |-> [OKTA_API_TOKEN |-> context.secrets.BEARER_AUTH_TOKEN]]

\* The method and URL of each call of a sequence.
Requests(calls) == [i \in 1..Len(calls) |-> <<calls[i].method, calls[i].url>>]

\* json() has been called on a response.
BodyRead(response) == \E i \in 1..Len(jsonCalls) : jsonCalls[i] = response

\* The body asked of the rejected transition (of the read-back) has settled.
ErrorBodyAnswered == BodyRead("unsuspendUserResponse") /\ pc # "awaitErrorBody"
UserDataAnswered == BodyRead("getUserResponse") /\ pc # "awaitUserData"

\* The error handler (the halt handler) has run.
ErrorHandled == recovery # << >>
Halted == halted # << >>

\* invoke has been called with no address to resolve: neither params.address
\* nor the environment's ADDRESS.
AddressUnresolvable ==
    /\ pc # "idle"
    /\ params.address = EmptyString
    /\ context.environment.ADDRESS = EmptyString

\* invoke has been called with no credentials configured.
NoCredentials == pc # "idle" /\ context.secrets = NoSecrets

\* The userId given is a non-empty string.
ValidUserId == params.userId.type = "string" /\ params.userId.str # EmptyString

\* The read-back answered 2xx and its body has settled, parseable, with the
\* status st.
ReadBackShows(st) ==
    /\ GetUserAnswered
    /\ UserDataAnswered
    /\ Is2xx(getUserResponse[1].status)
    /\ getUserResponse[1].body.json = "object"
    /\ getUserResponse[1].body.status = st

\* A field of a body holds a value: it is not absent, null or empty.
HoldsValue(field) == field \notin {undefined, null, ""}

\* The timestamp of a read-back body: statusChanged if it holds a value, else
\* lastUpdated as it came.
ReadBackTimestamp(body) ==
    IF HoldsValue(body.statusChanged) THEN body.statusChanged ELSE body.lastUpdated

\* sub occurs in s as a contiguous run of elements.
Contains(s, sub) ==
    \E i \in 0..Len(s) : i + Len(sub) <= Len(s) /\ SubSeq(s, i + 1, i + Len(sub)) = sub

\* The path of a request: its URL after the base URL.
RequestPath(call) == SubSeq(call.url, Len(baseUrl) + 1, Len(call.url))

\* The length of the first segment of s: the elements before its first "/".
SegmentLength(s) ==
    CHOOSE k \in 0..Len(s) :
        /\ \A j \in 1..k : s[j] # "/"
        /\ k = Len(s) \/ s[k + 1] = "/"

RECURSIVE Segments(_)
\* The segments of a path "/s1/s2/...", one per "/".
Segments(path) ==
    IF path = << >> THEN << >>
    ELSE LET rest == Tail(path)
             k    == SegmentLength(rest)
         IN  <<SubSeq(rest, 1, k)>> \o Segments(SubSeq(rest, k + 1, Len(rest)))

\* The parent-directory segment "..", which a URL parser resolves by dropping
\* it together with the segment before it.
ParentSegment == <<".", ".">>

\* The segments a request for a user must have around the user's segment.
ExpectedSegments(call, userSegment) ==
    <<<<"api">>, <<"v1">>, <<"users">>, userSegment>>
        \o (IF call.method = "POST" THEN <<<<"lifecycle">>, <<"unsuspend">>>> ELSE << >>)

\* The bearer credential without a generic Bearer prefix.
BareCredential ==
    LET cred == context.secrets.BEARER_AUTH_TOKEN
    IN  IF startsWith(cred, Bearer) THEN SubSeq(cred, Len(Bearer) + 1, Len(cred)) ELSE cred

----------------------------------------------------------------------------
(* Properties *)

\* C1: with a non-empty userId string, a 2xx transition response and a 2xx
\* read-back whose parseable body has status ACTIVE, invoke returns exactly
\* {userId, unsuspended: true, address: the resolved base URL, unsuspendedAt:
\* the read-back timestamp, status: "ACTIVE"}.
C1_SuccessResult ==
    (/\ ValidUserId
     /\ UnsuspendAnswered
     /\ Is2xx(unsuspendUserResponse[1].status)
     /\ ReadBackShows("ACTIVE"))
    => /\ pc = "returned"
       /\ error = << >>
       /\ result = <<[userId |-> params.userId,
                      unsuspended |-> TRUE,
                      address |-> baseUrl,
                      unsuspendedAt |-> ReadBackTimestamp(getUserResponse[1].body),
                      status |-> "ACTIVE"]>>

\* C1 witness: a success after a 2xx transition whose read-back carries both
\* timestamps.
C1_Witness ==
    /\ pc = "returned"
    /\ ValidUserId
    /\ Is2xx(unsuspendUserResponse[1].status)
    /\ ReadBackShows("ACTIVE")
    /\ getUserResponse[1].body.statusChanged # undefined
    /\ getUserResponse[1].body.lastUpdated # undefined
    /\ result[1].unsuspendedAt = getUserResponse[1].body.statusChanged

\* C3: a tolerated transition (2xx or 400) followed by a 2xx read-back whose
\* status is SUSPENDED makes invoke throw an error with statusCode 400 whose
\* message names the userId and contains "SUSPENDED"; nothing is returned.
C3_StillSuspendedThrows ==
    (/\ UnsuspendAnswered
     /\ Is2xx(unsuspendUserResponse[1].status) \/ unsuspendUserResponse[1].status = 400
     /\ ReadBackShows("SUSPENDED"))
    => /\ pc = "thrown"
       /\ result = << >>
       /\ Len(error) = 1
       /\ error[1].statusCode = <<400>>
       /\ Contains(error[1].message, <<"User ">> \o ToString(params.userId))
       /\ Contains(error[1].message, <<"SUSPENDED">>)

\* C3 witness: a 400 transition for a named user whose read-back is still
\* SUSPENDED has ended in the reconciliation error.
C3_Witness ==
    /\ pc = "thrown"
    /\ ValidUserId
    /\ unsuspendUserResponse # << >>
    /\ unsuspendUserResponse[1].status = 400
    /\ ReadBackShows("SUSPENDED")
    /\ error[1].statusCode = <<400>>

\* C4 as stated: every returned result has status ACTIVE.
C4_OnlyActiveReturned ==
    pc = "returned" => result[1].status = "ACTIVE"

\* C4 amended: a result is returned only after a 2xx read-back with a
\* parseable body, and its status is the read-back status, which is any
\* value but SUSPENDED.
C4_NeverSuspendedReturned ==
    pc = "returned" =>
        /\ GetUserAnswered
        /\ Is2xx(getUserResponse[1].status)
        /\ getUserResponse[1].body.json = "object"
        /\ result[1].status = getUserResponse[1].body.status
        /\ result[1].status # "SUSPENDED"

\* C4 witness: a result returned with the status RECOVERY.
C4_Witness ==
    /\ pc = "returned"
    /\ result[1].status = "RECOVERY"
    /\ getUserResponse[1].body.status = "RECOVERY"

\* C5: a 400 transition followed by an ACTIVE read-back ends as every 2xx
\* transition followed by the same read-back does: the same result, no error.
C5_IdempotentSuccess ==
    (/\ Ended
     /\ UnsuspendAnswered
     /\ unsuspendUserResponse[1].status = 400
     /\ ReadBackShows("ACTIVE"))
    => /\ pc = "returned"
       /\ \A transition \in UnsuspendResponses :
             Is2xx(transition.status) =>
                invokeOutcome(params.userId, baseUrl, transition, getUserResponse[1])
                    = [error |-> << >>, result |-> result]

\* C5 witness: a result returned after a 400 transition and an ACTIVE
\* read-back.
C5_Witness ==
    /\ pc = "returned"
    /\ unsuspendUserResponse[1].status = 400
    /\ ReadBackShows("ACTIVE")
    /\ result[1].unsuspended
    /\ result[1].status = "ACTIVE"

\* C2 as stated: with a userId that is absent, empty or not a string invoke
\* makes no network call and does not return: it fails with a validation
\* error.
C2_InvalidUserIdRejected ==
    ~ValidUserId =>
        /\ fetchCalls = << >>
        /\ pc # "returned"

\* C6: a transition response that is neither 2xx nor 400 makes invoke throw
\* an error whose statusCode is that status and whose message is "Failed to
\* unsuspend user: <errorSummary>" when the body parses with a non-empty
\* errorSummary, and "Failed to unsuspend user: HTTP <status>" otherwise;
\* it throws once the body it asked for has settled.
C6_TransitionRejectedError ==
    (/\ UnsuspendAnswered
     /\ ~Is2xx(unsuspendUserResponse[1].status)
     /\ unsuspendUserResponse[1].status # 400
     /\ ErrorBodyAnswered)
    => LET status == unsuspendUserResponse[1].status
           body   == unsuspendUserResponse[1].body
       IN  /\ pc = "thrown"
           /\ result = << >>
           /\ Len(error) = 1
           /\ error[1].statusCode = <<status>>
           /\ error[1].message =
                 IF body.json = "object" /\ body.errorSummary \notin {undefined, ""}
                 THEN <<"Failed to unsuspend user: ", body.errorSummary>>
                 ELSE <<"Failed to unsuspend user: ", "HTTP ">> \o NumberToString(status)

\* C6 witness: a 404 whose body carries an errorSummary has been turned into
\* the error naming it.
C6_Witness ==
    /\ pc = "thrown"
    /\ UnsuspendAnswered
    /\ unsuspendUserResponse[1].status = 404
    /\ unsuspendUserResponse[1].body.errorSummary = "Not found"
    /\ error[1].message = <<"Failed to unsuspend user: ", "Not found">>
    /\ error[1].statusCode = <<404>>

\* C7: after a transition response that is neither 2xx nor 400 the read-back
\* GET is never issued: the POST is the only call made, while invoke waits
\* for the body of that response and after it has thrown.
C7_NoReadBackAfterRejection ==
    (/\ UnsuspendAnswered
     /\ ~Is2xx(unsuspendUserResponse[1].status)
     /\ unsuspendUserResponse[1].status # 400)
    => /\ Len(fetchCalls) = 1
       /\ fetchCalls[1].method = "POST"
       /\ ~GetUserAnswered
       /\ pc \in {"awaitErrorBody", "thrown"}

\* C7 witness: invoke has thrown on a 503 with the POST as its only call.
C7_Witness ==
    /\ pc = "thrown"
    /\ UnsuspendAnswered
    /\ unsuspendUserResponse[1].status = 503
    /\ Len(fetchCalls) = 1

\* C8 as stated: for every userId string, each request path is
\* /api/v1/users/<one segment>[/lifecycle/unsuspend], the userId's segment
\* holds no space, "/" or "@", and it is not a ".." segment through which the
\* userId would leave its place in the path.
C8_UserIdConfined ==
    params.userId.type = "string" =>
        \A i \in 1..Len(fetchCalls) :
            LET segs == Segments(RequestPath(fetchCalls[i]))
            IN  /\ Len(segs) >= 4
                /\ segs = ExpectedSegments(fetchCalls[i], segs[4])
                /\ \A j \in 1..Len(segs[4]) : segs[4][j] \notin {" ", "/", "@"}
                /\ segs[4] # ParentSegment

\* C9: in bearer-token mode a credential without the SSWS prefix is sent as
\* "SSWS <token>" (the generic Bearer prefix removed, SSWS added once), a
\* credential carrying the SSWS prefix is sent as it is, never prefixed
\* twice; in every other scheme the resolver's Authorization value is sent
\* unmodified. Both requests carry the same value.
C9_TokenNormalization ==
    \A i \in 1..Len(fetchCalls) :
        LET sent == fetchCalls[i].headers.Authorization
        IN  IF context.secrets.BEARER_AUTH_TOKEN # EmptyString
            THEN /\ startsWith(BareCredential, SSWS) => sent = BareCredential
                 /\ ~startsWith(BareCredential, SSWS) => sent = SSWS \o BareCredential
                 /\ ~startsWith(sent, SSWS \o SSWS)
                 /\ ~startsWith(sent, Bearer)
            ELSE sent = getAuthorizationHeader(context)

\* C9 witness: both requests have been sent with "SSWS tk" for the bare
\* bearer credential "tk".
C9_Witness ==
    /\ context.secrets.BEARER_AUTH_TOKEN = <<"t", "k">>
    /\ Len(fetchCalls) = 2
    /\ fetchCalls[1].headers.Authorization = SSWS \o <<"t", "k">>
    /\ fetchCalls[2].headers.Authorization = SSWS \o <<"t", "k">>

\* C10 as stated: every error invoke throws, on every failure path, carries
\* a message and a numeric statusCode.
C10_EveryErrorHasStatusCode ==
    pc = "thrown" =>
        /\ Len(error) = 1
        /\ error[1].message # << >>
        /\ Len(error[1].statusCode) = 1

\* C11 as stated: every invocation that has ended has made exactly one POST
\* and exactly one GET.
C11_ExactlyOnePostAndOneGet ==
    Ended => CallCount("POST") = 1 /\ CallCount("GET") = 1

\* C11, amended: an invocation makes at most one POST and at most one GET,
\* the POST first, and repeats neither; it makes exactly one of each when
\* the transition response is tolerated (2xx or 400), and no GET when it
\* ends without such a response; the POST is made once the headers have
\* settled, none before.
C11_AtMostOnePostThenOneGet ==
    /\ CallCount("POST") <= 1
    /\ CallCount("GET") <= 1
    /\ Len(fetchCalls) = CallCount("POST") + CallCount("GET")
    /\ CallCount("GET") = 1 => fetchCalls[1].method = "POST"
    /\ TransitionTolerated => CallCount("POST") = 1 /\ CallCount("GET") = 1
    /\ (Ended /\ ~TransitionTolerated) => CallCount("GET") = 0
    /\ (pc \notin {"idle", "awaitHeaders"} /\ ~AddressUnresolvable /\ ~NoCredentials)
          => CallCount("POST") = 1
    /\ pc = "awaitHeaders" => fetchCalls = << >>

\* C11 witness: invoke has thrown on a rejected transition (503) having made
\* the POST and no GET.
C11_Witness ==
    /\ pc = "thrown"
    /\ UnsuspendAnswered
    /\ unsuspendUserResponse[1].status = 503
    /\ CallCount("POST") = 1
    /\ CallCount("GET") = 0

\* C12: when neither params.address nor the environment's ADDRESS is given,
\* or no credentials are configured, invoke throws the resolver's error (the
\* address error first, at once; the credentials error once the header
\* resolver has settled) and no call to fetch is made.
C12_UnresolvedInputsThrowWithoutCalls ==
    /\ AddressUnresolvable =>
          /\ pc = "thrown"
          /\ fetchCalls = << >>
          /\ error[1].message =
                <<"No URL specified. Provide address parameter or ADDRESS environment variable">>
    /\ (NoCredentials /\ ~AddressUnresolvable) =>
          /\ pc \in {"awaitHeaders", "thrown"}
          /\ fetchCalls = << >>
          /\ pc = "thrown" => error[1].message = <<"No authentication configured">>

\* C12 witness: invoke has thrown "No authentication configured" for an
\* address given and no secrets, without a call to fetch.
C12_Witness ==
    /\ pc = "thrown"
    /\ params.address = ExampleAddress
    /\ context.secrets = NoSecrets
    /\ error[1].message = <<"No authentication configured">>
    /\ fetchCalls = << >>

\* C13: when the transition is tolerated and the read-back answers non-2xx,
\* invoke throws "Cannot fetch information about User: HTTP <status>" with
\* that status as statusCode; no rejected transition and no reconciliation
\* failure has this message.
C13_ReadBackRejectedError ==
    (/\ TransitionTolerated
     /\ GetUserAnswered
     /\ ~Is2xx(getUserResponse[1].status))
    => /\ pc = "thrown"
       /\ result = << >>
       /\ error[1].message =
             <<"Cannot fetch information about User: ", "HTTP ">>
                 \o NumberToString(getUserResponse[1].status)
       /\ error[1].statusCode = <<getUserResponse[1].status>>
       /\ \A r \in UnsuspendResponses : error[1].message # transitionErrorMessage(r)
       /\ \A u \in UserObjects :
             error[1].message # reconciliationError(params.userId, u).message

\* C13 witness: after a 200 transition the read-back answered 500 and invoke
\* has thrown with statusCode 500.
C13_Witness ==
    /\ pc = "thrown"
    /\ UnsuspendAnswered
    /\ unsuspendUserResponse[1].status = 200
    /\ GetUserAnswered
    /\ getUserResponse[1].status = 500
    /\ error[1].statusCode = <<500>>

\* C14: when the read-back answers 2xx with a body that cannot be parsed,
\* invoke throws an error whose message starts with "Cannot parse user data"
\* and whose statusCode is 500, after a 2xx transition and after a 400 alike.
C14_UnparseableReadBackError ==
    (/\ GetUserAnswered
     /\ Is2xx(getUserResponse[1].status)
     /\ UserDataAnswered
     /\ getUserResponse[1].body.json = "invalid")
    => /\ pc = "thrown"
       /\ result = << >>
       /\ TransitionTolerated
       /\ error[1].message[1] = "Cannot parse user data: "
       /\ error[1].statusCode = <<500>>

\* C14 witness: after a 400 transition the read-back answered 200 with an
\* unparseable body and invoke has thrown with statusCode 500.
C14_Witness ==
    /\ pc = "thrown"
    /\ UnsuspendAnswered
    /\ unsuspendUserResponse[1].status = 400
    /\ GetUserAnswered
    /\ getUserResponse[1].status = 200
    /\ getUserResponse[1].body.json = "invalid"
    /\ error[1].statusCode = <<500>>

\* C15: a 2xx transition response whose body is missing or cannot be parsed
\* is tolerated: the GET is sent, and once it is answered and invoke has
\* ended the outcome of invoke is the one it has for every 2xx transition
\* response with a valid body and the same read-back.
C15_BodylessTransitionTolerated ==
    (/\ UnsuspendAnswered
     /\ Is2xx(unsuspendUserResponse[1].status)
     /\ unsuspendUserResponse[1].body.json = "invalid")
    => /\ Len(fetchCalls) = 2
       /\ fetchCalls[2] = getUser(params.userId, baseUrl, headers[1])
       /\ ~BodyRead("unsuspendUserResponse")
       /\ (GetUserAnswered /\ Ended) =>
             \A transition \in UnsuspendResponses :
                 (Is2xx(transition.status) /\ transition.body.json = "object") =>
                     invokeOutcome(params.userId, baseUrl, transition, getUserResponse[1])
                         = [error |-> error, result |-> result]

\* C15 witness: invoke has returned after a 204 transition without a body.
C15_Witness ==
    /\ pc = "returned"
    /\ unsuspendUserResponse[1].status = 204
    /\ unsuspendUserResponse[1].body.json = "invalid"
    /\ getUserResponse[1].body.status = "ACTIVE"
    /\ result[1].unsuspended

\* C16 as stated: in every result invoke returns, unsuspendedAt is the
\* read-back body's statusChanged when the body has that field, else its
\* lastUpdated, and undefined when it has neither; it is not the timestamp
\* of the transition response and not a reading of the local clock.
C16_UnsuspendedAtWhenPresent ==
    pc = "returned" =>
        LET body == getUserResponse[1].body
            at   == result[1].unsuspendedAt
        IN  /\ body.statusChanged # undefined => at = body.statusChanged
            /\ (body.statusChanged = undefined /\ body.lastUpdated # undefined)
                  => at = body.lastUpdated
            /\ (body.statusChanged = undefined /\ body.lastUpdated = undefined)
                  => at = undefined
            /\ at # undefined => at # unsuspendUserResponse[1].body.statusChanged
            /\ at \notin ClockValues

\* C16, amended: in every result invoke returns, unsuspendedAt is the
\* read-back body's statusChanged when that field holds a value (it is not
\* absent, null or empty), else the body's lastUpdated as it came: a
\* timestamp, or null or empty if lastUpdated is, and undefined when
\* lastUpdated is absent; it is not the timestamp of the transition response
\* and not a reading of the local clock.
C16_UnsuspendedAtFromReadBack ==
    pc = "returned" =>
        LET body == getUserResponse[1].body
            at   == result[1].unsuspendedAt
        IN  /\ HoldsValue(body.statusChanged) => at = body.statusChanged
            /\ ~HoldsValue(body.statusChanged) => at = body.lastUpdated
            /\ (~HoldsValue(body.statusChanged) /\ body.lastUpdated = undefined)
                  => at = undefined
            /\ (body.statusChanged = undefined /\ body.lastUpdated = undefined)
                  => at = undefined
            /\ HoldsValue(at) =>
                  /\ at \in {body.statusChanged, body.lastUpdated}
                  /\ at # unsuspendUserResponse[1].body.statusChanged
            /\ at \notin ClockValues

\* C16 witness: a result whose unsuspendedAt is the lastUpdated of a read-back
\* whose statusChanged is there but empty, returned after a transition
\* response that carried a timestamp of its own.
C16_Witness ==
    /\ pc = "returned"
    /\ unsuspendUserResponse[1].body = TransitionUser
    /\ getUserResponse[1].body.statusChanged = ""
    /\ getUserResponse[1].body.lastUpdated = "2024-01-14T09:00:00.000Z"
    /\ result[1].unsuspendedAt = "2024-01-14T09:00:00.000Z"

\* C17: when the transition is tolerated (2xx or 400) and the read-back
\* answers 2xx with a parseable body whose status is not SUSPENDED, invoke
\* returns a result with unsuspended true and the status of the read-back as
\* it came, whether ACTIVE or not.
C17_ReadBackStatusReturned ==
    (/\ TransitionTolerated
     /\ GetUserAnswered
     /\ Is2xx(getUserResponse[1].status)
     /\ UserDataAnswered
     /\ getUserResponse[1].body.json = "object"
     /\ getUserResponse[1].body.status # "SUSPENDED")
    => /\ pc = "returned"
       /\ error = << >>
       /\ result[1].unsuspended = TRUE
       /\ result[1].status = getUserResponse[1].body.status

\* C17 witness: invoke has returned status RECOVERY after a 400 transition.
C17_Witness ==
    /\ pc = "returned"
    /\ unsuspendUserResponse[1].status = 400
    /\ getUserResponse[1].body.status = "RECOVERY"
    /\ result[1].unsuspended
    /\ result[1].status = "RECOVERY"

\* C18: the error handler throws the very error it was given, with the same
\* message and statusCode (or none), and returns nothing; the step in which
\* it runs makes no call to fetch.
C18_ErrorRethrownUnchanged ==
    /\ [](ErrorHandled =>
             /\ recovery[1].thrown = error
             /\ recovery[1].thrown[1].message = error[1].message
             /\ recovery[1].thrown[1].statusCode = error[1].statusCode
             /\ recovery[1].returned = << >>)
    /\ [][recovery' # recovery => fetchCalls' = fetchCalls]_vars

\* C18 witness: the error handler has thrown again the 404 error of a
\* rejected transition.
C18_Witness ==
    /\ ErrorHandled
    /\ pc = "thrown"
    /\ error[1].statusCode = <<404>>
    /\ recovery[1].thrown[1].statusCode = <<404>>

\* C19 as stated: the halt handler returns, without throwing, {userId: the
\* userId given, or "unknown" if none was given, reason: the reason given,
\* haltedAt: the clock's reading, cleanupCompleted: true}.
C19_HaltRecordUnknownOnlyIfAbsent ==
    Halted =>
        /\ halted[1].outcome.thrown = << >>
        /\ halted[1].outcome.returned =
              <<[userId |-> IF halted[1].params.userId.type = "undefined"
                            THEN Unknown
                            ELSE halted[1].params.userId,
                 reason |-> halted[1].params.reason,
                 haltedAt |-> halted[1].now,
                 cleanupCompleted |-> TRUE]>>

\* C19, amended: the halt handler returns, without throwing, {userId: the
\* userId given, or "unknown" if it is absent or an empty string, reason:
\* the reason given, haltedAt: the clock's reading, cleanupCompleted: true},
\* at every stage of an invocation; the step in which it runs makes no call
\* to fetch.
C19_HaltRecord ==
    /\ [](Halted =>
             /\ halted[1].outcome.thrown = << >>
             /\ halted[1].outcome.returned =
                   <<[userId |-> IF \/ halted[1].params.userId.type = "undefined"
                                    \/ /\ halted[1].params.userId.type = "string"
                                       /\ halted[1].params.userId.str = EmptyString
                                 THEN Unknown
                                 ELSE halted[1].params.userId,
                      reason |-> halted[1].params.reason,
                      haltedAt |-> halted[1].now,
                      cleanupCompleted |-> TRUE]>>)
    /\ [][halted' # halted => fetchCalls' = fetchCalls]_vars

\* C19 witness: halted for a timeout while the headers of the invocation for
\* user "a" are awaited, before any call, the record carrying that userId.
C19_Witness ==
    /\ Halted
    /\ pc = "awaitHeaders"
    /\ fetchCalls = << >>
    /\ halted[1].params.reason = "timeout"
    /\ halted[1].params.userId.str = <<"a">>
    /\ halted[1].outcome.returned[1].userId.str = <<"a">>
    /\ halted[1].outcome.returned[1].cleanupCompleted

\* C20 as stated: once the GET has been sent, the POST was sent before it,
\* has settled with a response, and the body of that response has been read.
C20_TransitionBodyReadBeforeGet ==
    CallCount("GET") >= 1 =>
        /\ fetchCalls[1].method = "POST"
        /\ UnsuspendAnswered
        /\ BodyRead("unsuspendUserResponse")

\* C20, amended: the GET is sent only after the POST, once the POST has
\* settled with a response, and never while the POST is awaited; the body of
\* the transition response is not read before the GET: it is read only when
\* the transition is rejected, and then no GET follows.
C20_GetAfterPostSettled ==
    /\ CallCount("GET") >= 1 =>
          /\ Len(fetchCalls) = 2
          /\ fetchCalls[1].method = "POST"
          /\ fetchCalls[2].method = "GET"
          /\ UnsuspendAnswered
          /\ ~BodyRead("unsuspendUserResponse")
    /\ pc \in {"awaitHeaders", "awaitUnsuspend", "awaitErrorBody"} => CallCount("GET") = 0
    /\ BodyRead("unsuspendUserResponse") => CallCount("GET") = 0
    /\ BodyRead("getUserResponse") => GetUserAnswered

\* C20 witness: the GET is awaited, the POST having settled with 200 and its
\* body unread.
C20_Witness ==
    /\ pc = "awaitGetUser"
    /\ UnsuspendAnswered
    /\ unsuspendUserResponse[1].status = 200
    /\ Len(fetchCalls) = 2
    /\ jsonCalls = << >>

\* C21: after a tolerated transition response (2xx or 400, whatever its
\* body), the GET sent is the one the inputs alone determine, and once it is
\* answered and invoke has ended, it has ended as it does for every other
\* tolerated transition response with the same inputs and the same
\* read-back: the same result, or the same error with the same message and
\* statusCode.
C21_OutcomeDependsOnReadBackOnly ==
    TransitionTolerated =>
        /\ Len(fetchCalls) = 2
        /\ fetchCalls[2] = getUser(params.userId, baseUrl,
                                   sswsHeaders(context, createAuthHeaders(context).headers))
        /\ (GetUserAnswered /\ Ended) =>
              \A transition \in UnsuspendResponses :
                  (Is2xx(transition.status) \/ transition.status = 400) =>
                      LET other == invokeOutcome(params.userId, baseUrl, transition,
                                                 getUserResponse[1])
                      IN  /\ other.result = result
                          /\ other.error = error
                          /\ error # << >> =>
                                /\ other.error[1].message = error[1].message
                                /\ other.error[1].statusCode = error[1].statusCode

\* C21 witness: invoke has thrown the reconciliation error after a 400
\* transition whose body carried an error summary.
C21_Witness ==
    /\ pc = "thrown"
    /\ UnsuspendAnswered
    /\ GetUserAnswered
    /\ unsuspendUserResponse[1].status = 400
    /\ unsuspendUserResponse[1].body.errorSummary = "Api validation failed"
    /\ getUserResponse[1].body.status = "SUSPENDED"
    /\ error[1].statusCode = <<400>>

\* C22 as stated: the object the authorization resolver returned is left as
\* the resolver made it, whatever invoke sends.
C22_ResolverHeadersUnchanged ==
    authHeaders # << >> => authHeaders[1] = createAuthHeaders(context).headers

\* C24: with every promise it awaits settling in the end, an invocation
\* that has started ends, by returning a result or by throwing an error and never
\* both; the calls it has made are at any time none, the POST, or the POST
\* and then the GET; no step takes it back to an earlier position or adds
\* more than one call; and a result is returned only after the POST and the
\* GET, in that order.
C24_TerminatesWithoutRetry ==
    /\ [](pc # "idle" => <>Ended)
    /\ [](Methods \in {<< >>, <<"POST">>, <<"POST", "GET">>})
    /\ [](Ended => (result = << >>) # (error = << >>))
    /\ [](pc = "returned" => result # << >> /\ Methods = <<"POST", "GET">>)
    /\ [][/\ pc' # pc => StepsLeft' < StepsLeft
          /\ fetchCalls' # fetchCalls =>
                /\ Len(fetchCalls') = Len(fetchCalls) + 1
                /\ SubSeq(fetchCalls', 1, Len(fetchCalls)) = fetchCalls
                /\ pc' # pc]_vars

\* C24 witness: invoke has returned a result after the POST and the GET.
C24_Witness ==
    /\ pc = "returned"
    /\ result # << >>
    /\ Methods = <<"POST", "GET">>
    /\ UnsuspendAnswered
    /\ GetUserAnswered

\* C23: of invocations whose steps interleave, each makes the calls and
\* reaches the result or error it would have alone, whatever the others do,
\* for different users and for the same user; its verdict follows the
\* status its own GET has read, not the one another invocation has read.
C23_InvocationsIndependent ==
    \A i \in Runs :
        /\ runs[i].fetchCalls = AloneCalls(i)
        /\ (/\ runs[i].unsuspendUserResponse # << >>
            /\ runs[i].getUserResponse # << >>
            /\ runs[i].pc \in {"returned", "thrown"}) =>
              /\ [error |-> runs[i].error, result |-> runs[i].result] = AloneOutcome(i)
              /\ ok(runs[i].getUserResponse[1]) =>
                    /\ runs[i].getUserResponse[1].body.status = "SUSPENDED"
                          => runs[i].pc = "thrown" /\ runs[i].error[1].statusCode = <<400>>
                    /\ runs[i].getUserResponse[1].body.status = "ACTIVE"
                          => runs[i].pc = "returned" /\ runs[i].result[1].status = "ACTIVE"

\* C23 witness: two invocations for the same user have ended, one returning
\* ACTIVE and the other throwing on SUSPENDED, each as its own GET read it.
C23_Witness ==
    /\ runs[1].pc = "returned"
    /\ runs[2].pc = "thrown"
    /\ runs[1].params.userId = runs[2].params.userId
    /\ runs[2].getUserResponse # << >>
    /\ runs[1].result[1].status = "ACTIVE"
    /\ runs[2].getUserResponse[1].body.status = "SUSPENDED"
    /\ runs[2].error[1].statusCode = <<400>>

\* C25 as stated: for a non-empty userId string, an address and a bearer
\* credential, once invoke of src/script.mjs has ended after its POST was
\* answered, invoke of dist/index.js given the same inputs and the same POST
\* response has sent the same requests and ended the same way: the same
\* error (message and statusCode), or a result with the same userId, status
\* and unsuspendedAt.
C25_BundleSameAsSource ==
    (/\ Ended
     /\ ValidUserId
     /\ UnsuspendAnswered
     /\ context.secrets.BEARER_AUTH_TOKEN # EmptyString)
    => \A now \in ClockValues :
          LET dist == distOutcome(DistParams, DistContext, unsuspendUserResponse[1], now)
          IN  /\ Requests(distCalls(DistParams, DistContext)) = Requests(fetchCalls)
              /\ (dist.error = << >>) = (error = << >>)
              /\ error # << >> =>
                    /\ dist.error[1].message = error[1].message
                    /\ dist.error[1].statusCode = error[1].statusCode
              /\ result # << >> =>
                    /\ dist.result[1].userId = result[1].userId
                    /\ dist.result[1].unsuspended = result[1].unsuspended
                    /\ dist.result[1].status = result[1].status
                    /\ dist.result[1].unsuspendedAt = result[1].unsuspendedAt

====
